---------------------------- MODULE Spec2Model ----------------------------
(***************************************************************************)
(* Memento: shell history -> spaced-repetition cards.                      *)
(*                                                                         *)
(* A Go string is modelled as a sequence of one-character strings, so that *)
(* prefix tests, substring tests, splitting on whitespace and byte-wise    *)
(* ordering are computed the way the code computes them.                   *)
(***************************************************************************)
EXTENDS Integers, Sequences, FiniteSets, TLC

(***************************************************************************)
(* Bounds of the model (not program constants).                            *)
(***************************************************************************)
MaxToks == 4
MaxStrLen == 3
MaxStreak == 2
MaxGradeNow == 2
MaxDueLen == 3
MaxMergeLen == 2
MaxNow == 1
MaxGrades == 5
MaxSeenCount == 2
MaxInput == 1

(***************************************************************************)
(* Strings                                                                 *)
(***************************************************************************)
\* The characters the model uses, in ascending byte order.
Alphabet ==
  << " ", "%", "&", "*", "+", "-", ".", "/",
     "0", "1", "2", "3", "4", "5", "6", "7", "8", "9",
     ":", ";", "<", "=", ">", "@",
     "A", "B", "C", "D", "E", "F", "G", "H", "I", "J", "K", "L", "M",
     "N", "O", "P", "Q", "R", "S", "T", "U", "V", "W", "X", "Y", "Z",
     "_",
     "a", "b", "c", "d", "e", "f", "g", "h", "i", "j", "k", "l", "m",
     "n", "o", "p", "q", "r", "s", "t", "u", "v", "w", "x", "y", "z",
     "|", "~" >>

Ord(c) == CHOOSE i \in 1..Len(Alphabet) : Alphabet[i] = c

Digits == {"0", "1", "2", "3", "4", "5", "6", "7", "8", "9"}
Lower == {"a", "b", "c", "d", "e", "f", "g", "h", "i", "j", "k", "l", "m",
          "n", "o", "p", "q", "r", "s", "t", "u", "v", "w", "x", "y", "z"}
Upper == {"A", "B", "C", "D", "E", "F", "G", "H", "I", "J", "K", "L", "M",
          "N", "O", "P", "Q", "R", "S", "T", "U", "V", "W", "X", "Y", "Z"}
\* \w of the regular expressions
WordChars == Digits \cup Lower \cup Upper \cup {"_"}
\* the byte the strings package and \s treat as white space, as far as the
\* model's alphabet goes
IsSpace(c) == c = " "

EmptyStr == << >>

\* the element of a one-element set; {f(v) : v \in {e}} is f of the value
\* of e, the way a statement reads the value an earlier assignment stored
The(S) == CHOOSE r \in S : TRUE

\* strings.HasPrefix
HasPrefix(s, p) == Len(s) >= Len(p) /\ SubSeq(s, 1, Len(p)) = p

\* whether p occurs in s at position i
OccursAt(s, p, i) == i + Len(p) - 1 <= Len(s) /\ SubSeq(s, i, i + Len(p) - 1) = p

\* strings.Contains
Contains(s, p) == \E i \in 1..(Len(s) + 1) : OccursAt(s, p, i)

\* strings.Count for a non-empty p: non-overlapping occurrences, left to right
RECURSIVE CountFrom(_, _, _)
CountFrom(s, p, i) ==
  IF i + Len(p) - 1 > Len(s) THEN 0
  ELSE IF OccursAt(s, p, i) THEN 1 + CountFrom(s, p, i + Len(p))
  ELSE CountFrom(s, p, i + 1)

Count(s, p) == CountFrom(s, p, 1)

\* strings.TrimSpace
RECURSIVE TrimLeft(_)
TrimLeft(s) == IF s # << >> /\ IsSpace(Head(s)) THEN TrimLeft(Tail(s)) ELSE s

RECURSIVE TrimRight(_)
TrimRight(s) ==
  IF s # << >> /\ IsSpace(s[Len(s)]) THEN TrimRight(SubSeq(s, 1, Len(s) - 1)) ELSE s

TrimSpace(s) == TrimRight(TrimLeft(s))

\* strings.ToLower
LowerOf(c) ==
  IF c \in Upper THEN Alphabet[Ord(c) + (Ord("a") - Ord("A"))] ELSE c

ToLower(s) == [i \in 1..Len(s) |-> LowerOf(s[i])]

\* strings.Fields: the maximal runs of non-space characters
RECURSIVE FieldsFrom(_, _, _)
FieldsFrom(s, i, cur) ==
  IF i > Len(s) THEN (IF cur = << >> THEN << >> ELSE << cur >>)
  ELSE IF IsSpace(s[i])
       THEN (IF cur = << >> THEN << >> ELSE << cur >>) \o FieldsFrom(s, i + 1, << >>)
       ELSE FieldsFrom(s, i + 1, Append(cur, s[i]))

Fields(s) == FieldsFrom(s, 1, << >>)

\* strings.Join(toks, " ")
RECURSIVE Join(_)
Join(toks) ==
  IF toks = << >> THEN << >>
  ELSE IF Len(toks) = 1 THEN toks[1]
  ELSE toks[1] \o << " " >> \o Join(Tail(toks))

\* byte-wise string order, the order of sort.Strings
RECURSIVE StrLess(_, _)
StrLess(a, b) ==
  IF b = << >> THEN FALSE
  ELSE IF a = << >> THEN TRUE
  ELSE IF Head(a) = Head(b) THEN StrLess(Tail(a), Tail(b))
  ELSE Ord(Head(a)) < Ord(Head(b))

\* sort.Strings: ascending; equal strings are indistinguishable, so the
\* result does not depend on the algorithm
RECURSIVE InsertStr(_, _)
InsertStr(sorted, x) ==
  IF sorted = << >> THEN << x >>
  ELSE IF StrLess(x, Head(sorted)) THEN << x >> \o sorted
  ELSE << Head(sorted) >> \o InsertStr(Tail(sorted), x)

RECURSIVE SortStrings(_)
SortStrings(ss) ==
  IF ss = << >> THEN << >>
  ELSE InsertStr(SortStrings(SubSeq(ss, 1, Len(ss) - 1)), ss[Len(ss)])


(***************************************************************************)
(* Patterns of ingest.go.  A pattern is modelled by the length of its      *)
(* leftmost match starting at a position (0: no match there).  \b is a     *)
(* position between a \w character and a non-\w character or a string end. *)
(***************************************************************************)
HexLower == Digits \cup {"a", "b", "c", "d", "e", "f"}
HexAny == HexLower \cup {"A", "B", "C", "D", "E", "F"}
PathChars == WordChars \cup {"@", ".", "/", "-", "+", ":", "%"}

\* length of the maximal run of characters of S that starts at position i
RECURSIVE RunLen(_, _, _)
RunLen(s, i, S) ==
  IF i <= Len(s) /\ s[i] \in S THEN 1 + RunLen(s, i + 1, S) ELSE 0

\* \b holds just before position i of a run of \w characters
WordStartsAt(s, i) == i = 1 \/ s[i - 1] \notin WordChars

\* \b holds just after position j, the last of a run of \w characters
WordEndsAt(s, j) == j = Len(s) \/ s[j + 1] \notin WordChars

\* a run of characters of S, of minLen..maxLen characters, between two \b:
\* the run is maximal, since a further character of S is a \w character
BoundedRunAt(s, i, S, minLen, maxLen) ==
  LET r == RunLen(s, i, S) IN
  IF r >= minLen /\ r <= maxLen /\ WordStartsAt(s, i) /\ WordEndsAt(s, i + r - 1)
  THEN r ELSE 0

HttpPrefix == << "h", "t", "t", "p", ":", "/", "/" >>
HttpsPrefix == << "h", "t", "t", "p", "s", ":", "/", "/" >>

\* pathLike = (~|\.{1,2}|/)[\w@./\-+:%]+
pathLikeAt(s, i) ==
  IF i <= Len(s) /\ s[i] \in {"~", ".", "/"} /\ RunLen(s, i + 1, PathChars) >= 1
  THEN 1 + RunLen(s, i + 1, PathChars) ELSE 0

\* \S, within the model's alphabet
NonSpace == {Alphabet[k] : k \in 1..Len(Alphabet)} \ {" "}

\* urlRe = https?://\S+
urlReAt(s, i) ==
  LET p == IF OccursAt(s, HttpsPrefix, i) THEN Len(HttpsPrefix)
           ELSE IF OccursAt(s, HttpPrefix, i) THEN Len(HttpPrefix) ELSE 0
      r == RunLen(s, i + p, NonSpace)
  IN IF p > 0 /\ r >= 1 THEN p + r ELSE 0

\* uuidRe = \b[0-9a-fA-F]{8}-[0-9a-fA-F]{4}-[0-9a-fA-F]{4}-[0-9a-fA-F]{4}-[0-9a-fA-F]{12}\b
uuidReAt(s, i) ==
  IF /\ i + 35 <= Len(s)
     /\ WordStartsAt(s, i)
     /\ \A k \in 0..35 :
          IF k \in {8, 13, 18, 23} THEN s[i + k] = "-" ELSE s[i + k] \in HexAny
     /\ WordEndsAt(s, i + 35)
  THEN 36 ELSE 0

\* shaRe = \b[0-9a-f]{7,40}\b
shaReAt(s, i) == BoundedRunAt(s, i, HexLower, 7, 40)

\* bigNumRe = \b\d{3,}\b
bigNumReAt(s, i) == BoundedRunAt(s, i, Digits, 3, Len(s))

\* varAssign = \b[A-Za-z_][A-Za-z0-9_]*=([^ \t]+)
varAssignAt(s, i) ==
  LET r == RunLen(s, i, WordChars)
      v == RunLen(s, i + r + 1, NonSpace)
  IN IF /\ i <= Len(s)
        /\ s[i] \in WordChars \ Digits
        /\ WordStartsAt(s, i)
        /\ i + r <= Len(s)
        /\ s[i + r] = "="
        /\ v >= 1
     THEN r + 1 + v ELSE 0

\* hexRe = \b[0-9a-fA-F]{32,}\b
hexReAt(s, i) == BoundedRunAt(s, i, HexAny, 32, Len(s))

\* zshExt = ^: (\d+):(\d+); the lengths of the two digit runs of a match at
\* the start of the line (<< 0, 0 >>: no match)
zshExtMatch(line) ==
  LET e == RunLen(line, 3, Digits)
      d == RunLen(line, 4 + e, Digits)
  IN IF /\ HasPrefix(line, << ":", " " >>)
        /\ e >= 1
        /\ OccursAt(line, << ":" >>, 3 + e)
        /\ d >= 1
        /\ OccursAt(line, << ";" >>, 4 + e + d)
     THEN << e, d >> ELSE << 0, 0 >>

\* the length of the match of the named pattern that starts at s[i], 0 when
\* there is none
matchLenAt(re, s, i) ==
  CASE re = "urlRe" -> urlReAt(s, i)
    [] re = "uuidRe" -> uuidReAt(s, i)
    [] re = "shaRe" -> shaReAt(s, i)
    [] re = "bigNumRe" -> bigNumReAt(s, i)
    [] re = "varAssign" -> varAssignAt(s, i)
    [] re = "pathLike" -> pathLikeAt(s, i)
    [] re = "hexRe" -> hexReAt(s, i)

\* Regexp.MatchString: the pattern matches somewhere in s
MatchString(re, s) == \E i \in 1..Len(s) : matchLenAt(re, s, i) > 0

\* Regexp.ReplaceAllString: leftmost matches, left to right, not overlapping
RECURSIVE ReplaceFrom(_, _, _, _)
ReplaceFrom(re, s, i, repl) ==
  IF i > Len(s) THEN << >>
  ELSE IF matchLenAt(re, s, i) > 0
  THEN repl \o The({ReplaceFrom(re, s, j, repl) : j \in {i + matchLenAt(re, s, i)}})
  ELSE << s[i] >> \o ReplaceFrom(re, s, i + 1, repl)

ReplaceAllString(re, s, repl) == ReplaceFrom(re, s, 1, repl)

(***************************************************************************)
(* Tokens and placeholders                                                 *)
(***************************************************************************)
Dash == << "-" >>
DashDash == << "-", "-" >>
PhPATH == << "<", "P", "A", "T", "H", ">" >>
PhFILE == << "<", "F", "I", "L", "E", ">" >>
PhNS == << "<", "N", "S", ">" >>
PhCTX == << "<", "C", "T", "X", ">" >>
PhREPO == << "<", "R", "E", "P", "O", ">" >>
PhURL == << "<", "U", "R", "L", ">" >>
PhUUID == << "<", "U", "U", "I", "D", ">" >>
PhHEX == << "<", "H", "E", "X", ">" >>
PhVAL == << "=", "<", "V", "A", "L", ">" >>
PhSHA == << "<", "S", "H", "A", ">" >>
PhNUM == << "<", "N", "U", "M", ">" >>

\* valueFlags: the placeholder of a value-taking flag; a missing key reads as
\* the empty string
valueFlags(t) ==
  CASE t = << "-", "o" >> -> PhPATH
    [] t = << "-", "-", "o", "u", "t", "p", "u", "t" >> -> PhPATH
    [] t = << "-", "i" >> -> PhPATH
    [] t = << "-", "-", "i", "n", "p", "u", "t" >> -> PhPATH
    [] t = << "-", "f" >> -> PhFILE
    [] t = << "-", "-", "f", "i", "l", "e" >> -> PhFILE
    [] t = << "-", "-", "n", "a", "m", "e", "s", "p", "a", "c", "e" >> -> PhNS
    [] t = << "-", "n" >> -> PhNS
    [] t = << "-", "-", "c", "o", "n", "t", "e", "x", "t" >> -> PhCTX
    [] t = << "-", "r" >> -> PhREPO
    [] t = << "-", "-", "r", "e", "p", "o" >> -> PhREPO
    [] t = << "-", "-", "k", "u", "b", "e", "c", "o", "n", "f", "i", "g" >> -> PhPATH
    [] t = << "-", "-", "c", "o", "n", "f", "i", "g" >> -> PhPATH
    [] OTHER -> EmptyStr

(***************************************************************************)
(* normalizeCommand and stableFlagOrder.  A call that panics (slice bounds *)
(* out of range) yields [panic |-> TRUE].                                  *)
(***************************************************************************)
Ok(v) == [panic |-> FALSE, val |-> v]
Panic == [panic |-> TRUE, val |-> << >>]

\* the masking passes of normalizeCommand, in the code's order: urlRe, uuidRe,
\* shaRe, bigNumRe, varAssign, pathLike.  The passes for quoteBlob, emailRe
\* and ipRe are left out: they change nothing in a command that holds no
\* quote, no "@" and no dotted digits, and the model's commands hold none.
\* The replacement template of varAssign, "${VAR}=<VAL>", names a group the
\* pattern does not have, which expands to nothing: the text put in is
\* "=<VAL>"
maskVolatile(s) ==
  LET S1 == {ReplaceAllString("urlRe", s, PhURL)}
      S2 == {ReplaceAllString("uuidRe", s1, PhUUID) : s1 \in S1}
      S3 == {ReplaceAllString("shaRe", s2, PhSHA) : s2 \in S2}
      S4 == {ReplaceAllString("bigNumRe", s3, PhNUM) : s3 \in S3}
      S5 == {ReplaceAllString("varAssign", s4, PhVAL) : s4 \in S4}
  IN The({ReplaceAllString("pathLike", s5, PhPATH) : s5 \in S5})

\* the token-level pass: the token after a value-taking flag becomes the
\* flag's placeholder unless it starts with "-"; the loop reads the tokens it
\* has already rewritten
RECURSIVE substValues(_, _)
substValues(toks, i) ==
  IF i > Len(toks) THEN toks
  ELSE IF valueFlags(toks[i]) # EmptyStr /\ i + 1 <= Len(toks)
          /\ ~HasPrefix(toks[i + 1], Dash)
       THEN substValues([toks EXCEPT ![i + 1] = valueFlags(toks[i])], i + 1)
       ELSE substValues(toks, i + 1)

\* the loop of stableFlagOrder: splits the tokens into flags and rest
RECURSIVE splitFlags(_, _, _, _)
splitFlags(toks, i, flags, rest) ==
  IF i > Len(toks) THEN [flags |-> flags, rest |-> rest]
  ELSE IF HasPrefix(toks[i], DashDash)
       THEN IF i + 1 <= Len(toks) /\ ~HasPrefix(toks[i + 1], Dash)
               /\ valueFlags(toks[i]) # EmptyStr
            THEN splitFlags(toks, i + 2, flags, rest \o << toks[i], toks[i + 1] >>)
            ELSE splitFlags(toks, i + 1, Append(flags, toks[i]), rest)
       ELSE splitFlags(toks, i + 1, flags, Append(rest, toks[i]))

\* rest[0:1] and rest[1:] panic when rest is empty
stableFlagOrder(toks) ==
  The({IF Len(fr.rest) < 1 THEN Panic
       ELSE Ok(<< fr.rest[1] >> \o SortStrings(fr.flags) \o Tail(fr.rest))
       : fr \in {splitFlags(toks, 1, << >>, << >>)}})

\* wsCollapse then strings.TrimSpace: every run of white space becomes one
\* space and the ends are trimmed
collapseWs(s) == Join(Fields(s))

normalizeCommand(s) ==
  LET Masked == {maskVolatile(s)}
      Split == {Fields(masked) : masked \in Masked}
      Toks == {substValues(fields, 1) : fields \in Split}
      Ordered == {stableFlagOrder(toks) : toks \in Toks}
  IN The({IF r.panic THEN Panic ELSE Ok(collapseWs(Join(r.val))) : r \in Ordered})

(***************************************************************************)
(* Cards (storage.go)                                                      *)
(***************************************************************************)
\* time.Time{}: the zero time, before every instant of the clock.  Time is
\* counted in days, the unit of boxIntervals.
ZeroTime == 0 - 1

\* sha1 + hex: a digest of the text, taken to be free of collisions
hash(s) == << "sha1", s >>

\* type Card; Tags is kept as a set: union and unique drop duplicates, and the
\* order union leaves is that of a map iteration
Card(id, prompt, answer, hint, command, tags, box, nextDue, lastReviewed, streak, timesSeen, seenCount) ==
  [id |-> id, prompt |-> prompt, answer |-> answer, hint |-> hint,
   command |-> command, tags |-> tags, box |-> box, nextDue |-> nextDue,
   lastReviewed |-> lastReviewed, streak |-> streak, timesSeen |-> timesSeen,
   seenCount |-> seenCount]

\* func union(a, b []string)
union(a, b) == a \cup b

\* func (c *Card) Due(now)
Due(c, t) == ~(t < c.nextDue)

\* func (c *Card) Touch(now)
Touch(c, t) == [c EXCEPT !.lastReviewed = t, !.timesSeen = @ + 1]

\* json.MarshalIndent / json.Unmarshal of one Card: the object's keys are the
\* json tags of the struct
EncodeCard(c) ==
  [id |-> c.id, prompt |-> c.prompt, answer |-> c.answer, hint |-> c.hint,
   command |-> c.command, tags |-> c.tags, box |-> c.box, next_due |-> c.nextDue,
   last_reviewed |-> c.lastReviewed, streak |-> c.streak,
   times_seen |-> c.timesSeen, seen_count |-> c.seenCount]

DecodeCard(o) ==
  Card(o.id, o.prompt, o.answer, o.hint, o.command, o.tags, o.box, o.next_due,
       o.last_reviewed, o.streak, o.times_seen, o.seen_count)

\* SaveCards: the file content written for a collection
SaveCards(cs) == [i \in 1..Len(cs) |-> EncodeCard(cs[i])]

\* LoadCards: the collection read from a file content
LoadCards(file) == [i \in 1..Len(file) |-> DecodeCard(file[i])]

\* the index UpsertCards and SaveProgress look an id up in
IdsOf(cs) == {cs[i].id : i \in 1..Len(cs)}

\* idx := map[string]int of UpsertCards: a later card of the same id
\* overwrites the entry of an earlier one
LastIndexOf(cs, id) ==
  CHOOSE i \in 1..Len(cs) :
    cs[i].id = id /\ \A j \in (i + 1)..Len(cs) : cs[j].id # id

\* the merge branch of UpsertCards: tags are united, a blank prompt, answer
\* or hint is filled
\* a merge that lets the incoming card overwrite prompt, answer and hint: the
\* clobbering C4 rules out
mergeIntoOverwriting(e, c) ==
  [e EXCEPT !.tags = union(e.tags, c.tags),
            !.prompt = c.prompt, !.answer = c.answer, !.hint = c.hint]

mergeInto(e, c) ==
  [e EXCEPT !.tags = union(e.tags, c.tags),
            !.prompt = IF e.prompt = EmptyStr THEN c.prompt ELSE e.prompt,
            !.answer = IF e.answer = EmptyStr THEN c.answer ELSE e.answer,
            !.hint = IF e.hint = EmptyStr THEN c.hint ELSE e.hint]

\* the loop of UpsertCards over incoming[k..]: idx is built from existing
\* before the loop and is not extended by the appends
RECURSIVE upsertLoop(_, _, _, _)
upsertLoop(cur, existing, incoming, k) ==
  IF k > Len(incoming) THEN cur
  ELSE LET c == incoming[k] IN
       IF c.id \in IdsOf(existing)
       THEN LET i == LastIndexOf(existing, c.id) IN
            upsertLoop([cur EXCEPT ![i] = mergeInto(cur[i], c)],
                       existing, incoming, k + 1)
       ELSE upsertLoop(Append(cur, c), existing, incoming, k + 1)

UpsertCards(existing, incoming) == upsertLoop(existing, existing, incoming, 1)

\* a write that appends the graded card without replacing the stored one:
\* the stale record C6 rules out
SaveProgressAppending(file, updated) == SaveCards(Append(LoadCards(file), updated))

\* SaveProgress: reload, replace the first card of the same id (append when
\* there is none), save; yields the new file content
SaveProgress(file, updated) ==
  LET cs == LoadCards(file)
      hits == {i \in 1..Len(cs) : cs[i].id = updated.id}
  IN IF hits # {}
     THEN LET i == CHOOSE h \in hits : \A g \in hits : h <= g
          IN SaveCards([cs EXCEPT ![i] = updated])
     ELSE SaveCards(Append(cs, updated))

(***************************************************************************)
(* Scheduler                                                               *)
(***************************************************************************)
\* boxIntervals, in days; a missing key reads as 0
boxIntervals(b) ==
  CASE b = 1 -> 0
    [] b = 2 -> 1
    [] b = 3 -> 3
    [] b = 4 -> 7
    [] b = 5 -> 21
    [] OTHER -> 0

\* a transition without the floor and the cap of the box: what C1 rules out
GradeUnclamped(card, correct, t) ==
  LET c1 == Touch(card, t)
      c2 == IF correct
            THEN [c1 EXCEPT !.box = @ + 1, !.streak = @ + 1]
            ELSE [c1 EXCEPT !.box = @ - 1, !.streak = 0]
  IN [c2 EXCEPT !.nextDue = t + boxIntervals(c2.box)]

\* a transition that takes the interval of the box before the move: what the
\* last clause of C2 rules out
GradeDueFromOldBox(card, correct, t) ==
  LET c1 == Touch(card, t)
      c2 == IF correct
            THEN [c1 EXCEPT !.box = IF @ < 5 THEN @ + 1 ELSE @,
                            !.streak = @ + 1]
            ELSE [c1 EXCEPT !.box = IF @ > 1 THEN @ - 1 ELSE @,
                            !.streak = IF @ > 0 THEN 0 ELSE @]
  IN [c2 EXCEPT !.nextDue = t + boxIntervals(card.box)]

Grade(card, correct, t) ==
  LET c1 == Touch(card, t)
      c2 == IF correct
            THEN [c1 EXCEPT !.box = IF @ < 5 THEN @ + 1 ELSE @,
                            !.streak = @ + 1]
            ELSE [c1 EXCEPT !.box = IF @ > 1 THEN @ - 1 ELSE @,
                            !.streak = IF @ > 0 THEN 0 ELSE @]
  IN [c2 EXCEPT !.nextDue = t + boxIntervals(c2.box)]

\* the less function DueCards gives sort.SliceStable
seenMore(a, b) == a.seenCount > b.seenCount

\* sort.SliceStable: a stable sort; x goes before the first element it is
\* less than
RECURSIVE insertStable(_, _)
insertStable(sorted, x) ==
  IF sorted = << >> THEN << x >>
  ELSE IF seenMore(x, Head(sorted)) THEN << x >> \o sorted
  ELSE << Head(sorted) >> \o insertStable(Tail(sorted), x)

RECURSIVE sortSliceStable(_)
sortSliceStable(cs) ==
  IF cs = << >> THEN << >>
  ELSE insertStable(sortSliceStable(SubSeq(cs, 1, Len(cs) - 1)), cs[Len(cs)])

\* the selection without the sort (the older DueCards of tui.go:175-183):
\* the order C5 rules out
DueCardsUnsorted(cs, t) ==
  LET IsDue(c) == Due(c, t) IN SelectSeq(cs, IsDue)

DueCards(cs, t) ==
  LET IsDue(c) == Due(c, t) IN sortSliceStable(SelectSeq(cs, IsDue))

(***************************************************************************)
(* Review (tui.go)                                                         *)
(***************************************************************************)
\* a check that accepts the exact answer only: no partial recall
checkAnswerExact(c, ans) ==
  ans # EmptyStr /\ ToLower(TrimSpace(c.answer)) = ToLower(TrimSpace(ans))

checkAnswer(c, ans) ==
  IF ans = EmptyStr THEN FALSE
  ELSE LET A == ToLower(TrimSpace(c.answer))
           B == ToLower(TrimSpace(ans))
       IN A = B \/ Contains(A, B) \/ Contains(B, A)

(***************************************************************************)
(* Ingest (ingest.go)                                                      *)
(***************************************************************************)
isTricky(cmd) ==
  LET flags == Count(cmd, << " ", "-" >>) + Count(cmd, << " ", "-", "-" >>) IN
  \/ Len(cmd) > 40
  \/ Contains(cmd, << "|" >>)
  \/ Contains(cmd, << "&", "&" >>)
  \/ flags >= 2
  \/ Contains(cmd, << "-", "r", "f" >>)
  \/ Contains(cmd, << "-", "-", "f", "o", "r", "c", "e" >>)

isBadAnswerToken(w) ==
  \/ w = EmptyStr
  \/ Contains(w, << "<" >>) /\ Contains(w, << ">" >>)
  \/ Contains(w, << "/" >>) \/ HasPrefix(w, << "~" >>) \/ HasPrefix(w, << "." >>)
  \/ MatchString("urlRe", w) \/ MatchString("pathLike", w)
  \/ MatchString("shaRe", w) \/ MatchString("uuidRe", w)
  \/ MatchString("bigNumRe", w)

TokGit == << "g", "i", "t" >>
TokKubectl == << "k", "u", "b", "e", "c", "t", "l" >>

preferSubcommands(cmdName) ==
  IF cmdName = TokGit
  THEN { << "r", "e", "b", "a", "s", "e" >>,
       << "c", "h", "e", "r", "r", "y", "-", "p", "i", "c", "k" >>,
       << "s", "t", "a", "s", "h" >>,
       << "r", "e", "s", "e", "t" >>,
       << "r", "e", "s", "t", "o", "r", "e" >>,
       << "r", "e", "v", "e", "r", "t" >>,
       << "c", "h", "e", "c", "k", "o", "u", "t" >>,
       << "c", "o", "m", "m", "i", "t" >>,
       << "f", "e", "t", "c", "h" >>,
       << "m", "e", "r", "g", "e" >>,
       << "p", "u", "s", "h" >>,
       << "p", "u", "l", "l" >> }
  ELSE IF cmdName = TokKubectl
  THEN { << "g", "e", "t" >>,
       << "d", "e", "s", "c", "r", "i", "b", "e" >>,
       << "a", "p", "p", "l", "y" >>,
       << "d", "e", "l", "e", "t", "e" >>,
       << "l", "o", "g", "s" >>,
       << "e", "x", "e", "c" >>,
       << "r", "o", "l", "l", "o", "u", "t" >>,
       << "s", "c", "a", "l", "e" >>,
       << "p", "o", "r", "t", "-", "f", "o", "r", "w", "a", "r", "d" >>,
       << "t", "o", "p" >> }
  ELSE {}

BlankMarker == << "_", "_", "_", "_", "_" >>
ClozeHint == << "T", "y", "p", "e", " ", "t", "h", "e", " ", "m", "i", "s", "s", "i", "n", "g", " ", "f", "l", "a", "g", "/", "s", "u", "b", "c", "o", "m", "m", "a", "n", "d" >>

\* the indices 1..n in ascending order
Indices(n) == [i \in 1..n |-> i]

\* the candidate list of cloze, in priority order (1 is the command name)
clozeCandidates(words) ==
  LET good == preferSubcommands(words[1])
      IsGood(i) == i > 1 /\ words[i] \in good
      IsLong(i) == HasPrefix(words[i], DashDash)
      IsShort(i) == HasPrefix(words[i], Dash) /\ ~HasPrefix(words[i], DashDash)
      IsFallback(i) == i > 1 /\ ~isBadAnswerToken(words[i])
      all == Indices(Len(words))
      flagged == SelectSeq(all, IsGood) \o SelectSeq(all, IsLong)
                   \o SelectSeq(all, IsShort)
      fallback == SelectSeq(all, IsFallback)
  IN IF flagged # << >> THEN flagged
     ELSE IF fallback # << >> THEN << Head(fallback) >> ELSE << >>

cloze(cmd) ==
  The({IF words = << >>
       THEN [prompt |-> EmptyStr, answer |-> EmptyStr, hint |-> EmptyStr]
       ELSE LET IsUsable(i) == ~isBadAnswerToken(words[i])
                Usable == {SelectSeq(clozeCandidates(words), IsUsable)}
                Idx == {IF usable # << >> THEN Head(usable) ELSE 1 : usable \in Usable}
            IN The({[prompt |-> Join([words EXCEPT ![idx] = BlankMarker]),
                     answer |-> words[idx],
                     hint |-> ClozeHint] : idx \in Idx})
       : words \in {Fields(cmd)}})

KnownTools == { << "g", "i", "t" >>,
              << "k", "u", "b", "e", "c", "t", "l" >>,
              << "f", "f", "m", "p", "e", "g" >>,
              << "d", "o", "c", "k", "e", "r" >>,
              << "g", "r", "e", "p" >>,
              << "a", "w", "k" >>,
              << "s", "e", "d" >> }

deriveTags(cmd) ==
  LET parts == Fields(cmd) IN
  IF parts = << >> THEN {}
  ELSE {parts[1]} \cup {t \in KnownTools : HasPrefix(cmd, t \o << " " >>)}

\* what the body of GenerateCards' loop computes from the event alone:
\* whether it is tricky, and for a tricky one the canonical text, the id and
\* the content of the card
draftOf(ev) ==
  IF ~isTricky(ev.command) THEN [tricky |-> FALSE]
  ELSE The({IF canon.panic THEN [tricky |-> TRUE, panic |-> TRUE]
            ELSE The({[tricky |-> TRUE, panic |-> FALSE, id |-> hash(canon.val),
                       prompt |-> cz.prompt, answer |-> cz.answer, hint |-> cz.hint,
                       command |-> canon.val, tags |-> deriveTags(canon.val)]
                      : cz \in {cloze(canon.val)}})
            : canon \in {normalizeCommand(ev.command)}})

DraftsOf(events) == [k \in 1..Len(events) |-> draftOf(events[k])]

\* the loop of GenerateCards over events[k..], given what each event yields;
\* existing is mutated through the pointers of idx, out collects the new cards
RECURSIVE generateLoop(_, _, _, _, _, _)
generateLoop(drafts, k, existing, out, seenIDs, t) ==
  IF k > Len(drafts) THEN [panic |-> FALSE, existing |-> existing, out |-> out]
  ELSE LET d == drafts[k] IN
       IF ~d.tricky
       THEN generateLoop(drafts, k + 1, existing, out, seenIDs, t)
       ELSE IF d.panic
       THEN [panic |-> TRUE, existing |-> existing, out |-> out]
       ELSE IF d.id \in seenIDs
       THEN generateLoop(drafts, k + 1, existing, out, seenIDs, t)
       ELSE IF d.id \in IdsOf(existing)
       THEN LET i == LastIndexOf(existing, d.id) IN
            generateLoop(drafts, k + 1, [existing EXCEPT ![i].seenCount = @ + 1],
                         out, seenIDs, t)
       ELSE generateLoop(drafts, k + 1, existing,
                         Append(out, Card(d.id, d.prompt, d.answer, d.hint, d.command,
                                          d.tags, 1, t, ZeroTime, 0, 0, 1)),
                         seenIDs \cup {d.id}, t)

\* GenerateCards on the events' drafts: yields the new cards (out) and the
\* collection as the call leaves it
generateFromDrafts(drafts, existing, t) ==
  generateLoop(drafts, 1, existing, << >>, {}, t)

GenerateCards(events, existing, t) ==
  generateFromDrafts(DraftsOf(events), existing, t)

\* the keywords of tokenRe = (?i)(AWS|SECRET|TOKEN|KEY|PASSWORD|PASS|PWD)=\S+
SecretKeywords ==
  { << "a", "w", "s" >>, << "s", "e", "c", "r", "e", "t" >>, << "t", "o", "k", "e", "n" >>, << "k", "e", "y" >>,
    << "p", "a", "s", "s", "w", "o", "r", "d" >>, << "p", "a", "s", "s" >>, << "p", "w", "d" >> }

\* the length of the keyword of a match of tokenRe at position i (0: no
\* match); the keyword ends right before the "=", so at most one fits
tokenReKeywordAt(s, i) ==
  LET fits == {k \in SecretKeywords :
                 /\ i + Len(k) <= Len(s)
                 /\ ToLower(SubSeq(s, i, i + Len(k) - 1)) = k
                 /\ s[i + Len(k)] = "="
                 /\ RunLen(s, i + Len(k) + 1, NonSpace) >= 1}
  IN IF fits = {} THEN 0 ELSE Len(CHOOSE k \in fits : TRUE)

\* tokenRe.ReplaceAllString(s, "$1=***")
RECURSIVE redactTokens(_, _)
redactTokens(s, i) ==
  IF i > Len(s) THEN << >>
  ELSE LET n == tokenReKeywordAt(s, i) IN
       IF n > 0
       THEN SubSeq(s, i, i + n - 1) \o << "=", "*", "*", "*" >>
              \o redactTokens(s, i + n + 1 + RunLen(s, i + n + 1, NonSpace))
       ELSE << s[i] >> \o redactTokens(s, i + 1)

\* scrub: tokenRe, then hexRe; the emailRe pass between them is left out, the
\* model's lines holding no "@"
scrub(s) ==
  The({ReplaceAllString("hexRe", s1, PhHEX) : s1 \in {redactTokens(s, 1)}})

isIgnorable(s) ==
  \/ HasPrefix(s, << "#" >>)
  \/ HasPrefix(s, << "c", "d", " " >>)
  \/ HasPrefix(s, << "l", "s" >>)
  \/ Len(Fields(s)) = 0

\* the number a run of digits writes
RECURSIVE DigitsValue(_)
DigitsValue(ds) ==
  IF ds = << >> THEN 0
  ELSE 10 * DigitsValue(SubSeq(ds, 1, Len(ds) - 1)) + (Ord(ds[Len(ds)]) - Ord("0"))

\* normalizeHistoryLine: the command and its time; a zsh extended line
\* carries its epoch, a bash line the zero time
normalizeHistoryLine(line) ==
  The({IF mt[1] > 0
       THEN [cmd |-> TrimSpace(SubSeq(line, 5 + mt[1] + mt[2], Len(line))),
             when |-> DigitsValue(SubSeq(line, 3, 2 + mt[1]))]
       ELSE [cmd |-> line, when |-> ZeroTime]
       : mt \in {zshExtMatch(line)}})

\* the body of ParseHistory's scan loop up to the map: nothing for a line
\* that is skipped, else the time and the canonical text of the line
lineEvent(text) ==
  LET Line == {TrimSpace(text)} \ {EmptyStr}
      Split == {normalizeHistoryLine(line) : line \in Line}
      Raw == {[when |-> h.when, raw |-> scrub(h.cmd)] : h \in Split}
      Kept == {x \in Raw : ~isIgnorable(x.raw)}
  IN {[when |-> x.when, canon |-> normalizeCommand(x.raw)] : x \in Kept}

\* the loop of ParseHistory over lines[k..]: uniq maps a canonical text to the
\* latest time it was seen at
RECURSIVE parseLoop(_, _, _)
parseLoop(lines, k, uniq) ==
  IF k > Len(lines) THEN [panic |-> FALSE, uniq |-> uniq]
  ELSE The({IF evs = {} THEN parseLoop(lines, k + 1, uniq)
            ELSE LET e == The(evs) IN
                 IF e.canon.panic THEN [panic |-> TRUE, uniq |-> uniq]
                 ELSE IF \E ev \in uniq : ev.command = e.canon.val /\ ~(e.when > ev.when)
                 THEN parseLoop(lines, k + 1, uniq)
                 ELSE parseLoop(lines, k + 1,
                                {ev \in uniq : ev.command # e.canon.val}
                                  \cup {[when |-> e.when, command |-> e.canon.val]})
            : evs \in {lineEvent(lines[k])}})

\* ParseHistory over the lines of the history files: the orders the events
\* can come out in.  They are collected from a map and sorted by descending
\* time with sort.Slice, so events of equal time come in any order
ParseHistory(lines) ==
  The({[panic |-> r.panic,
        events |-> IF r.panic THEN {}
                   ELSE LET n == Cardinality(r.uniq) IN
                        {evs \in [1..n -> r.uniq] :
                           /\ \A i, j \in 1..n : i # j => evs[i] # evs[j]
                           /\ \A i, j \in 1..n : i < j => evs[i].when >= evs[j].when}]
       : r \in {parseLoop(lines, 1, {})}})

(***************************************************************************)
(* State                                                                   *)
(***************************************************************************)
VARIABLES
  disk,    \* the content of cards.json
  now,     \* the clock, in days
  mode,    \* "idle": no process; "ingested": ingest at its last statement;
           \* "panicked": ingest stopped by a panic; "review": the TUI takes
           \* keys; "quit": the TUI has stopped
  cards,   \* main's variable cards
  m,       \* the TUI model
  pc,      \* position of a direct call of one function
  arg,     \* the arguments of that call
  res      \* its results

vars == << disk, now, mode, cards, m, pc, arg, res >>

NoModel == [cards |-> << >>, idx |-> 0, input |-> EmptyStr, focused |-> FALSE,
            feedback |-> "", checking |-> FALSE, quit |-> FALSE]

\* no command has run yet: no cards.json
SysInit ==
  /\ disk = << >>
  /\ now = 0
  /\ mode = "idle"
  /\ cards = << >>
  /\ m = NoModel

sysVars == << disk, now, mode, cards, m >>

(***************************************************************************)
(* Direct calls of normalizeCommand and stableFlagOrder                    *)
(***************************************************************************)
TokX == << "x" >>
TokV == << "-", "v" >>
TokF == << "-", "f" >>
TokOutput == << "-", "-", "o", "u", "t", "p", "u", "t" >>
TokAll == << "-", "-", "a", "l", "l" >>
TokBare == << "-", "-", "b", "a", "r", "e" >>

\* a command name, value-taking flags, bare long flags, a short flag, a value
NormTokens == {TokGit, TokF, TokOutput, TokAll, TokBare, TokV, TokX}

TokSeqs == UNION {[1..n -> NormTokens] : n \in 1..MaxToks}

NormInit ==
  /\ SysInit
  /\ pc = "start"
  /\ arg \in TokSeqs
  /\ res = [fn |-> "none"]

CallStableFlagOrder ==
  /\ pc = "start"
  /\ res' = [fn |-> "stableFlagOrder", out |-> stableFlagOrder(arg)]
  /\ pc' = "done"
  /\ UNCHANGED << arg, sysVars >>

CallNormalizeCommand ==
  /\ pc = "start"
  /\ res' = [fn |-> "normalizeCommand", out1 |-> normalizeCommand(Join(arg))]
  /\ pc' = IF res'.out1.panic THEN "panicked" ELSE "once"
  /\ UNCHANGED << arg, sysVars >>

\* the second canonicalization, as GenerateCards applies it to an event's text
CallNormalizeCommandAgain ==
  /\ pc = "once"
  /\ res' = [fn |-> "normalizeCommand", out1 |-> res.out1,
             out2 |-> normalizeCommand(res.out1.val)]
  /\ pc' = "done"
  /\ UNCHANGED << arg, sysVars >>

NormNext == CallStableFlagOrder \/ CallNormalizeCommand \/ CallNormalizeCommandAgain

SpecNorm == NormInit /\ [][NormNext]_vars

\* C8: canonicalization is idempotent: normalizeCommand applied to its own
\* result returns that result
C8_NormalizeIdempotent ==
  (pc = "done" /\ res.fn = "normalizeCommand") => res.out2 = res.out1

\* token i starts a recognized long flag/value pair
PairFlagAt(toks, i) ==
  /\ HasPrefix(toks[i], DashDash)
  /\ valueFlags(toks[i]) # EmptyStr
  /\ i < Len(toks)
  /\ ~HasPrefix(toks[i + 1], Dash)

\* token i is a bare long flag
BareLongAt(toks, i) == HasPrefix(toks[i], DashDash) /\ ~PairFlagAt(toks, i)

\* out rearranges toks: the first token stays first, the tokens that are not
\* bare long flags keep their relative order, the bare long flags are in
\* lexicographic order
StableRearrangement(toks, out) ==
  /\ Len(out) = Len(toks)
  /\ \E f \in [1..Len(toks) -> 1..Len(toks)] :
       /\ \A i, j \in 1..Len(toks) : i # j => f[i] # f[j]
       /\ \A i \in 1..Len(toks) : out[f[i]] = toks[i]
       /\ f[1] = 1
       /\ \A i, j \in 1..Len(toks) :
            (i < j /\ ~BareLongAt(toks, i) /\ ~BareLongAt(toks, j)) => f[i] < f[j]
       /\ \A i, j \in 1..Len(toks) :
            (BareLongAt(toks, i) /\ BareLongAt(toks, j) /\ f[i] < f[j])
              => ~StrLess(toks[j], toks[i])

\* C9: on every non-empty token sequence stableFlagOrder completes and
\* returns a rearrangement that keeps the first token first, keeps the order
\* of the tokens that are not bare long flags and sorts the bare long flags
C9_StableFlagOrderTotal ==
  (pc = "done" /\ res.fn = "stableFlagOrder")
    => (~res.out.panic /\ StableRearrangement(arg, res.out.val))


(***************************************************************************)
(* Direct calls of checkAnswer                                             *)
(***************************************************************************)
AnswerChars == {" ", "a", "A", "b"}

AnswerStrings == UNION {[1..n -> AnswerChars] : n \in 0..MaxStrLen}

\* a card as GenerateCards creates it, with the given id and answer
FreshCard(id, answer) ==
  Card(id, EmptyStr, answer, EmptyStr, EmptyStr, {}, 1, 0, ZeroTime, 0, 0, 1)

AnswerInit ==
  /\ SysInit
  /\ pc = "start"
  /\ arg \in [answer : AnswerStrings, submitted : AnswerStrings]
  /\ res = [fn |-> "none"]

CallCheckAnswer ==
  /\ pc = "start"
  /\ res' = [fn |-> "checkAnswer",
             out |-> checkAnswer(FreshCard(hash(EmptyStr), arg.answer), arg.submitted)]
  /\ pc' = "done"
  /\ UNCHANGED << arg, sysVars >>

AnswerNext == CallCheckAnswer

SpecAnswer == AnswerInit /\ [][AnswerNext]_vars

\* p occurs in s as a block of consecutive characters
SubstringOf(p, s) ==
  \E off \in 0..Len(s) :
    off + Len(p) <= Len(s) /\ \A k \in 1..Len(p) : s[off + k] = p[k]

\* the two strings agree after trimming and lowercasing, up to containment
AnswersAgree(stored, submitted) ==
  LET a == ToLower(TrimSpace(stored))
      b == ToLower(TrimSpace(submitted))
  IN a = b \/ SubstringOf(a, b) \/ SubstringOf(b, a)

\* C10 as stated: checkAnswer is true iff the trimmed, lowercased strings are
\* equal or one contains the other, for every pair of strings
C10_CheckAnswerIffAgree ==
  pc = "done" => (res.out <=> AnswersAgree(arg.answer, arg.submitted))

\* C10 amended: checkAnswer is true iff the submitted answer is not the empty
\* string and the trimmed, lowercased strings are equal or one contains the
\* other
C10_CheckAnswerNonEmptyIffAgree ==
  pc = "done" =>
    (res.out <=> (arg.submitted # EmptyStr /\ AnswersAgree(arg.answer, arg.submitted)))

\* a partial answer in another case and with blanks around it is accepted
C10_Witness ==
  /\ pc = "done"
  /\ res.out
  /\ arg.answer = << "a", "b" >>
  /\ arg.submitted = << " ", "A", " " >>

(***************************************************************************)
(* Direct calls of Grade                                                   *)
(***************************************************************************)
GradeCards ==
  {Card(hash(TokGit), EmptyStr, TokX, ClozeHint, TokGit, {TokGit}, b, 0, ZeroTime, s, n, 1) :
     b \in 1..5, s \in 0..MaxStreak, n \in 0..1}

GradeInit ==
  /\ SysInit
  /\ pc = "start"
  /\ arg \in [card : GradeCards, correct : BOOLEAN, t : 0..MaxGradeNow]
  /\ res = [fn |-> "none"]

CallGrade ==
  /\ pc = "start"
  /\ res' = [fn |-> "Grade", out |-> Grade(arg.card, arg.correct, arg.t)]
  /\ pc' = "done"
  /\ UNCHANGED << arg, sysVars >>

GradeNext == CallGrade

SpecGrade == GradeInit /\ [][GradeNext]_vars

\* the review interval of a box, in days
IntervalDays == << 0, 1, 3, 7, 21 >>

Min(a, b) == IF a < b THEN a ELSE b
Max(a, b) == IF a > b THEN a ELSE b

\* C2: Grade sets lastReviewed to now and adds one to the times-seen counter;
\* a correct grade gives box min(b+1,5) and streak s+1, an incorrect one box
\* max(b-1,1) and streak 0; nextDue is now plus the interval of the new box
C2_GradeTransition ==
  pc = "done" =>
    LET c == arg.card
        d == res.out
    IN /\ d.lastReviewed = arg.t
       /\ d.timesSeen = c.timesSeen + 1
       /\ arg.correct => (d.box = Min(c.box + 1, 5) /\ d.streak = c.streak + 1)
       /\ ~arg.correct => (d.box = Max(c.box - 1, 1) /\ d.streak = 0)
       /\ d.nextDue = arg.t + IntervalDays[d.box]
       /\ d = [c EXCEPT !.lastReviewed = d.lastReviewed, !.timesSeen = d.timesSeen,
                        !.box = d.box, !.streak = d.streak, !.nextDue = d.nextDue]

\* a correct grade at box 5 stays at box 5, due 21 days later
C2_Witness ==
  /\ pc = "done"
  /\ arg.correct
  /\ arg.card.box = 5
  /\ res.out.box = 5
  /\ res.out.nextDue = arg.t + 21

(***************************************************************************)
(* Direct calls of DueCards                                                *)
(***************************************************************************)
DueTimes == 0..2
SeenCounts == {1, 3, 5}

\* collections whose k-th card has id k
DueCollections ==
  UNION {{[k \in 1..n |->
            Card(k, EmptyStr, TokX, ClozeHint, TokGit, {TokGit}, 1, f[k][1], ZeroTime, 0, 0, f[k][2])] :
          f \in [1..n -> DueTimes \X SeenCounts]} : n \in 0..MaxDueLen}

DueInit ==
  /\ SysInit
  /\ pc = "start"
  /\ arg \in [cards : DueCollections, t : {1, 2}]
  /\ res = [fn |-> "none"]

CallDueCards ==
  /\ pc = "start"
  /\ res' = [fn |-> "DueCards", out |-> DueCards(arg.cards, arg.t)]
  /\ pc' = "done"
  /\ UNCHANGED << arg, sysVars >>

DueNext == CallDueCards

SpecDue == DueInit /\ [][DueNext]_vars

\* C5: DueCards returns exactly the cards with nextDue <= now, each once, by
\* descending SeenCount, cards of equal count in their original order
C5_DueCardsSelectsAndOrders ==
  pc = "done" =>
    LET cs == arg.cards
        out == res.out
        dueIdx == {i \in 1..Len(cs) : cs[i].nextDue <= arg.t}
    IN /\ Len(out) = Cardinality(dueIdx)
       /\ \A i \in dueIdx : \E k \in 1..Len(out) : out[k] = cs[i]
       /\ \A k \in 1..Len(out) : \E i \in dueIdx : out[k] = cs[i]
       /\ \A k, l \in 1..Len(out) :
            k < l => \/ out[k].seenCount > out[l].seenCount
                     \/ out[k].seenCount = out[l].seenCount /\ out[k].id < out[l].id

\* seen counts [5, 1, 3], all due, come out as [5, 3, 1]; or a card not yet
\* due is left out while two due cards of equal count keep their order
C5_Witness ==
  /\ pc = "done"
  /\ Len(arg.cards) = 3
  /\ \/ /\ [k \in 1..3 |-> arg.cards[k].seenCount] = << 5, 1, 3 >>
        /\ [k \in 1..Len(res.out) |-> res.out[k].seenCount] = << 5, 3, 1 >>
     \/ /\ arg.cards[2].nextDue > arg.t
        /\ [k \in 1..Len(res.out) |-> res.out[k].id] = << 1, 3 >>
        /\ arg.cards[1].seenCount = arg.cards[3].seenCount


(***************************************************************************)
(* Direct calls of UpsertCards                                             *)
(***************************************************************************)
IdA == hash(<< "a" >>)
IdB == hash(<< "b" >>)
IdC == hash(<< "c" >>)
TagT == << "t" >>
TagU == << "u" >>
Blank3 == << EmptyStr, EmptyStr, EmptyStr >>

\* cards of a persisted collection: reviewed, some fields blank or edited
ExistingCards ==
  {Card(id, pah[1], pah[2], pah[3], << "c", "m", "d" >>, tags, 3, 2, 1, 2, 3, 2) :
     id \in {IdA, IdB},
     pah \in {Blank3, << << "p" >>, << "r" >>, << "h" >> >>,
              << << "p" >>, EmptyStr, << "h" >> >>, << EmptyStr, << "r" >>, EmptyStr >>},
     tags \in {{}, {TagT}}}

\* incoming cards: fresh, of an id the collection may or may not hold
IncomingCards ==
  {Card(id, pah[1], pah[2], pah[3], << "c", "m", "d" >>, tags, 1, 0, ZeroTime, 0, 0, 1) :
     id \in {IdA, IdC},
     pah \in {Blank3, << << "q" >>, << "s" >>, << "i" >> >>},
     tags \in {{TagT}, {TagU}}}

SeqsUpTo(S, n) == UNION {[1..k -> S] : k \in 0..n}

DistinctIds(cs) == \A i, j \in 1..Len(cs) : i # j => cs[i].id # cs[j].id

\* the collection holds one card per id; the incoming sequence is arbitrary
MergeInit ==
  /\ SysInit
  /\ pc = "start"
  /\ arg \in [existing : {e \in SeqsUpTo(ExistingCards, MaxMergeLen) : DistinctIds(e)},
              incoming : SeqsUpTo(IncomingCards, MaxMergeLen)]
  /\ res = [fn |-> "none"]

CallUpsertCards ==
  /\ pc = "start"
  /\ res' = [fn |-> "UpsertCards", out1 |-> UpsertCards(arg.existing, arg.incoming)]
  /\ pc' = "once"
  /\ UNCHANGED << arg, sysVars >>

\* the same incoming sequence merged into the result of the first merge
CallUpsertCardsAgain ==
  /\ pc = "once"
  /\ res' = [fn |-> "UpsertCards", out1 |-> res.out1,
             out2 |-> UpsertCards(res.out1, arg.incoming)]
  /\ pc' = "done"
  /\ UNCHANGED << arg, sysVars >>

MergeNext == CallUpsertCards \/ CallUpsertCardsAgain

SpecMerge == MergeInit /\ [][MergeNext]_vars

\* C3: merging the same incoming sequence a second time changes nothing, card
\* by card (tags are sets)
C3_MergeIdempotent == pc = "done" => res.out2 = res.out1

\* the incoming cards of id, in incoming order
Matching(incoming, id) == LET Same(c) == c.id = id IN SelectSeq(incoming, Same)

\* a field of an existing card after the merge: kept when it was not blank,
\* else blank or the value of a matching incoming card
FilledOnlyIfBlank(before, after, offered) ==
  IF before # EmptyStr THEN after = before
  ELSE IF offered = {} THEN after = before
  ELSE after \in offered

LineRebase == << ":", " ", "7", ":", "0", ";", "g", "i", "t", " ", "r", "e", "b", "a", "s", "e", " ", "-", "i", " ", "-", "-", "a", "l", "l" >>
LineFile == << "g", "i", "t", " ", "-", "f", " ", "-", "-", "a", "l", "l", " ", "x" >>
LinePlain == << "g", "i", "t", " ", "x" >>
LineFlagsOnly == << "-", "-", "a", "l", "l" >>

HistoryLines == << LineRebase, LineFile, LinePlain, LineFlagsOnly >>

\* the history files: any selection of the lines
Histories ==
  {LET idxs == SelectSeq(Indices(Len(HistoryLines)), LAMBDA i : i \in S)
   IN [k \in 1..Len(idxs) |-> HistoryLines[idxs[k]]] : S \in SUBSET (1..Len(HistoryLines))}

\* what ParseHistory makes of each of them
ParsedHistories == {ParseHistory(hist) : hist \in Histories}

\* the event lists of the runs ParseHistory completes, each event with what
\* GenerateCards computes from it
IngestDrafts ==
  {DraftsOf(events) : events \in UNION {ph.events : ph \in ParsedHistories}}

\* the runes typed into the answer field
Runes == {"r"}

\* textinput.Model.Update on a key: a focused field takes the rune of the
\* key, a blurred one takes nothing; the text is followed up to MaxInput runes
inputUpdate(value, focused, key) ==
  IF focused /\ Len(key) = 1 /\ Len(value) < MaxInput THEN Append(value, key[1])
  ELSE value

\* the grading events the persisted collection records
RECURSIVE SumTimesSeen(_)
SumTimesSeen(file) ==
  IF file = << >> THEN 0 ELSE Head(file).times_seen + SumTimesSeen(Tail(file))

GradesOnDisk == SumTimesSeen(disk)

\* initialModel
initialModel(all, t) ==
  LET due == DueCards(all, t) IN
  [NoModel EXCEPT !.cards = due, !.focused = (Len(due) # 0)]

\* main, case "ingest", up to its last statement
Ingest ==
  /\ mode = "idle"
  /\ \A i \in 1..Len(disk) : disk[i].seen_count < MaxSeenCount
  /\ \E drafts \in IngestDrafts :
            LET g == generateFromDrafts(drafts, LoadCards(disk), now) IN
            /\ ~g.panic
            /\ IF Len(g.out) > 0
               THEN /\ cards' = UpsertCards(g.existing, g.out)
                    /\ disk' = SaveCards(cards')
               ELSE /\ cards' = g.existing
                    /\ disk' = disk
  /\ mode' = "ingested"
  /\ UNCHANGED << now, m, pc, arg, res >>

\* main, case "ingest", ended by the panic of stableFlagOrder in
\* ParseHistory: the process is gone, nothing is written
IngestPanic ==
  /\ mode = "idle"
  /\ \E ph \in ParsedHistories : ph.panic
  /\ mode' = "panicked"
  /\ UNCHANGED << disk, now, cards, m, pc, arg, res >>

\* main, case "review", up to the first key
StartReview ==
  /\ mode = "idle"
  /\ cards' = LoadCards(disk)
  /\ m' = initialModel(cards', now)
  /\ mode' = "review"
  /\ UNCHANGED << disk, now, pc, arg, res >>

\* tea.Quit: the program stops taking keys
Quit == mode' = "quit"

\* main returns: the memory of the process is gone
Exit ==
  /\ mode \in {"ingested", "panicked", "quit"}
  /\ mode' = "idle"
  /\ cards' = << >>
  /\ m' = NoModel
  /\ UNCHANGED << disk, now, pc, arg, res >>

\* Update, key "ctrl+c"
KeyCtrlC ==
  /\ mode = "review"
  /\ m' = [m EXCEPT !.quit = TRUE]
  /\ Quit
  /\ UNCHANGED << disk, now, cards, pc, arg, res >>

\* Update, key "enter"
KeyEnter ==
  /\ mode = "review"
  /\ IF Len(m.cards) = 0
     THEN /\ Quit
          /\ UNCHANGED << m, disk >>
     ELSE /\ GradesOnDisk < MaxGrades
          /\ LET ans == TrimSpace(m.input)
                 correct == checkAnswer(m.cards[m.idx + 1], ans)
                 graded == Grade(m.cards[m.idx + 1], correct, now)
             IN /\ m' = [m EXCEPT !.cards[m.idx + 1] = graded,
                                  !.feedback = IF correct THEN "correct" ELSE "nope",
                                  !.checking = TRUE,
                                  !.focused = FALSE]
                /\ disk' = SaveProgress(disk, graded)
          /\ UNCHANGED mode
  /\ UNCHANGED << now, cards, pc, arg, res >>

\* Update, keys "n", "right", "tab"; the key then goes on to the answer field
KeyNext ==
  /\ mode = "review"
  /\ \E key \in {<< "n" >>, << "r", "i", "g", "h", "t" >>, << "t", "a", "b" >>} :
       IF ~m.checking
       THEN /\ m' = [m EXCEPT !.input = inputUpdate(m.input, m.focused, key)]
            /\ UNCHANGED mode
       ELSE IF m.idx < Len(m.cards) - 1
       THEN /\ m' = [m EXCEPT !.idx = @ + 1, !.feedback = "", !.checking = FALSE,
                              !.focused = TRUE,
                              !.input = inputUpdate(EmptyStr, TRUE, key)]
            /\ UNCHANGED mode
       ELSE /\ Quit
            /\ UNCHANGED m
  /\ UNCHANGED << disk, now, cards, pc, arg, res >>

\* Update, key "q"
KeyQ ==
  /\ mode = "review"
  /\ IF ~m.checking
     THEN /\ m' = [m EXCEPT !.input = inputUpdate(m.input, m.focused, << "q" >>)]
          /\ UNCHANGED mode
     ELSE /\ m' = [m EXCEPT !.quit = TRUE]
          /\ Quit
  /\ UNCHANGED << disk, now, cards, pc, arg, res >>

\* Update, any other rune: it goes to the answer field
KeyRune ==
  /\ mode = "review"
  /\ \E c \in Runes : m' = [m EXCEPT !.input = inputUpdate(m.input, m.focused, << c >>)]
  /\ UNCHANGED << disk, now, mode, cards, pc, arg, res >>

\* a day passes
Tick ==
  /\ now < MaxNow
  /\ now' = now + 1
  /\ UNCHANGED << disk, mode, cards, m, pc, arg, res >>

Init ==
  /\ SysInit
  /\ pc = "none"
  /\ arg = << >>
  /\ res = [fn |-> "none"]

Next ==
  \/ Ingest
  \/ IngestPanic
  \/ StartReview
  \/ Exit
  \/ KeyCtrlC
  \/ KeyEnter
  \/ KeyNext
  \/ KeyQ
  \/ KeyRune
  \/ Tick

Spec == Init /\ [][Next]_vars

\* every card the program holds: in cards.json, in main's collection, in the
\* TUI's due list
AllCards ==
  {LoadCards(disk)[i] : i \in 1..Len(disk)}
    \cup {cards[i] : i \in 1..Len(cards)}
    \cup {m.cards[i] : i \in 1..Len(m.cards)}

\* C1: whatever grades, merges and progress writes a generated card has gone
\* through, its box is one of 1, 2, 3, 4, 5
C1_BoxInRange == \A c \in AllCards : c.box \in 1..5

\* a card graded five times that stands in box 5: the fifth correct grade
\* found it in box 5 and left it there, and the write kept it
C1_Witness ==
  \E i \in 1..Len(disk) :
    /\ disk[i].box = 5
    /\ disk[i].times_seen = 5
    /\ disk[i].streak = 5

\* the cards of the due list graded so far in the session: those before the
\* current one, and the current one once it is checked
GradedInSession ==
  {k \in 1..Len(m.cards) : k < m.idx + 1 \/ (k = m.idx + 1 /\ m.checking)}

\* C6: at any point of a review session the file holds, for every card graded
\* so far, its in-memory state after its latest grade, and every other card as
\* the session loaded it
C6_ReviewPersistsGrades ==
  mode \in {"review", "quit"} =>
    /\ Len(disk) = Len(cards)
    /\ \A k \in GradedInSession : m.cards[k].id \in IdsOf(cards)
    /\ \A j \in 1..Len(cards) :
         LET g == {k \in GradedInSession : m.cards[k].id = cards[j].id} IN
         IF g # {}
         THEN \A k \in g :
                /\ disk[j] = EncodeCard(m.cards[k])
                /\ disk[j].box = m.cards[k].box
                /\ disk[j].streak = m.cards[k].streak
                /\ disk[j].next_due = m.cards[k].nextDue
                /\ disk[j].last_reviewed = m.cards[k].lastReviewed
                /\ disk[j].times_seen = m.cards[k].timesSeen
         ELSE disk[j] = EncodeCard(cards[j])

\* the first due card is graded and written, the second awaits its answer with
\* a rune typed that no file holds
C6_Witness ==
  /\ mode = "review"
  /\ m.idx = 1
  /\ ~m.checking
  /\ m.input # EmptyStr
  /\ m.cards[1].timesSeen > 0
  /\ m.cards[1].box = 2
  /\ \E j \in 1..Len(disk) : disk[j] = EncodeCard(m.cards[1])
  /\ \E j \in 1..Len(disk) : disk[j] = EncodeCard(m.cards[2]) /\ disk[j] = EncodeCard(cards[j])

\* C7: when an ingest run finishes, cards.json holds the collection the run
\* produced in memory, also when the run generated no new card
C7_IngestWritesBack == mode = "ingested" => disk = SaveCards(cards)

\* a step of a review session, as C11 has it: the due list changes (a card is
\* graded) only while the session awaits an answer, the index stays or moves
\* forward by one, moves only from a checked card, and stays within the list
C11_Step ==
  (mode = "review" /\ mode' \in {"review", "quit"}) =>
    /\ (m'.cards # m.cards \/ disk' # disk) => ~m.checking
    /\ m'.idx \in {m.idx, m.idx + 1}
    /\ m'.idx = m.idx + 1 => m.checking
    /\ Len(m'.cards) > 0 => m'.idx \in 0..(Len(m'.cards) - 1)

\* C11: in a review session each due card is graded at most once: Grade and
\* SaveProgress act only while checking is false, a further enter on a checked
\* card grades nothing, and the index moves forward by one after a grade and
\* stays within 0..len(cards)-1
C11_GradedAtMostOnce == [][C11_Step]_vars

=============================================================================
